---- MODULE Spec2Model ----
(***************************************************************************)
(* Model of vvault_scripts/master/needle.py: one run of main().           *)
(*                                                                         *)
(* Strings are sequences of tokens (a word, ":" , "/", "..", a digit).     *)
(* A path is the sequence of its segments below "/"; a path string is a    *)
(* token sequence that starts with "/" when it is absolute.                *)
(***************************************************************************)
EXTENDS Integers, Sequences, FiniteSets, TLC

\* ------------------------------------------------------------------ bounds
\* largest value of --max a request carries (0 and -1 are always drawn)
MaxCap == 2
\* largest value of --around a request carries
MaxAround == 1

\* ----------------------------------------------------------------- strings
\* str.lower() on the tokens of the corpus
Lower(tok) ==
    CASE tok = "Needle" -> "needle"
      [] tok = "X" -> "x"
      [] OTHER -> tok

LowerStr(s) == [i \in 1..Len(s) |-> Lower(s[i])]

\* Python's  a in b  on strings: a occurs as a contiguous run of b
Contains(hay, ndl) ==
    \E i \in 0..(Len(hay) - Len(ndl)) :
        \A j \in 1..Len(ndl) : hay[i + j] = ndl[j]

\* decimal digits: str(n) and int(s) for the line numbers of the corpus
Digits == <<"1", "2", "3", "4", "5", "6">>

IntToStr(n) == <<Digits[n]>>

DigitOf(tok) == CHOOSE n \in 1..Len(Digits) : Digits[n] = tok

IsDigit(tok) == \E n \in 1..Len(Digits) : Digits[n] = tok

\* int(s) succeeds on a non-empty run of digits
IsIntStr(s) == s # <<>> /\ \A i \in 1..Len(s) : IsDigit(s[i])

RECURSIVE StrToInt(_)
StrToInt(s) ==
    IF s = <<>> THEN 0
    ELSE 10 * StrToInt(SubSeq(s, 1, Len(s) - 1)) + DigitOf(s[Len(s)])

IsPrefix(a, b) == Len(a) <= Len(b) /\ SubSeq(b, 1, Len(a)) = a

\* ------------------------------------------------------------- filesystem
\* A filesystem maps the absolute paths that exist to their node.  A
\* directory lists its entries in the order os.scandir returns them.
\* fault = k > 0: reading line k of the file raises OSError (0: no fault).
DirNode(entries) ==
    [kind |-> "dir", entries |-> entries, lines |-> <<>>, target |-> <<>>,
     readable |-> TRUE, fault |-> 0]
FileNode(lines) ==
    [kind |-> "file", entries |-> <<>>, lines |-> lines, target |-> <<>>,
     readable |-> TRUE, fault |-> 0]
LockedNode(lines) ==
    [kind |-> "file", entries |-> <<>>, lines |-> lines, target |-> <<>>,
     readable |-> FALSE, fault |-> 0]
FaultyNode(lines, k) ==
    [kind |-> "file", entries |-> <<>>, lines |-> lines, target |-> <<>>,
     readable |-> TRUE, fault |-> k]
LinkNode(target) ==
    [kind |-> "link", entries |-> <<>>, lines |-> <<>>, target |-> target,
     readable |-> TRUE, fault |-> 0]

ParentOf(p) == IF p = <<>> THEN <<>> ELSE SubSeq(p, 1, Len(p) - 1)

\* Path.resolve(): ".." is folded and every link on the way is followed;
\* components that do not exist are kept (non-strict resolution).
RECURSIVE ResolveFrom(_, _, _)
ResolveFrom(fs, cur, rest) ==
    IF rest = <<>> THEN cur
    ELSE LET s == Head(rest) IN
         IF s = ".." THEN ResolveFrom(fs, ParentOf(cur), Tail(rest))
         ELSE IF s = "." THEN ResolveFrom(fs, cur, Tail(rest))
         ELSE LET nxt == Append(cur, s) IN
              IF nxt \in DOMAIN fs /\ fs[nxt].kind = "link"
              THEN ResolveFrom(fs, <<>>, fs[nxt].target \o Tail(rest))
              ELSE ResolveFrom(fs, nxt, Tail(rest))

Resolve(fs, p) == ResolveFrom(fs, <<>>, p)

\* Path(s): the segments of a path string
PathOf(s) == IF s # <<>> /\ Head(s) = "/" THEN Tail(s) ELSE s

IsAbsStr(s) == s # <<>> /\ Head(s) = "/"

\* root / rel : an absolute right operand replaces the left one
JoinPath(root, s) == IF IsAbsStr(s) THEN PathOf(s) ELSE root \o s

\* str(p) of an absolute path
AbsStr(p) == <<"/">> \o p

\* p.relative_to(base) succeeds iff base is a prefix of p
IsRelativeTo(p, base) == IsPrefix(base, p)

\* str(p.relative_to(base)); the base itself is "."
RelStr(p, base) ==
    IF p = base THEN <<".">> ELSE SubSeq(p, Len(base) + 1, Len(p))

Exists(fs, p) == Resolve(fs, p) \in DOMAIN fs

IsFile(fs, p) == Exists(fs, p) /\ fs[Resolve(fs, p)].kind = "file"

IsDir(fs, p) == Exists(fs, p) /\ fs[Resolve(fs, p)].kind = "dir"

\* ------------------------------------------------------------ _repo_root
DEFAULT_GLOBS == <<"*.txt", "*.md">>

DEFAULT_PATHS ==
    << <<"chatgpt">>, <<"github_copilot">>, <<"character.ai">>,
       <<"cursor_conversations">>, <<"codex_conversations">>,
       <<"chatgpt", "codex_transcripts">> >>

repo_markers == <<".git", "pyproject.toml", "package.json">>

HasMarker(fs, p) == \E i \in 1..Len(repo_markers) : Exists(fs, Append(p, repo_markers[i]))

\* here, here.parent, ... , "/" : the path and its ancestors, nearest first
Ancestors(p) == [i \in 1..(Len(p) + 1) |-> SubSeq(p, 1, Len(p) + 1 - i)]

NameOf(p) == IF p = <<>> THEN "" ELSE p[Len(p)]

\* environ is [set, value]: NEEDLE_ROOT and whether it is defined
_repo_root(fs, environ, file) ==
    IF environ.set /\ environ.value # <<>>
    THEN Resolve(fs, PathOf(environ.value))
    ELSE LET here == Resolve(fs, file)
             anc == Ancestors(here)
             parent == ParentOf(here)
         IN IF \E i \in 1..Len(anc) : HasMarker(fs, anc[i])
            THEN anc[CHOOSE i \in 1..Len(anc) :
                        /\ HasMarker(fs, anc[i])
                        /\ \A j \in 1..(i - 1) : ~HasMarker(fs, anc[j])]
            ELSE IF NameOf(parent) = "identity" THEN ParentOf(parent)
            ELSE IF NameOf(parent) = "master"
                    /\ NameOf(ParentOf(parent)) \in {"scripts", "vvault_scripts"}
                 THEN ParentOf(ParentOf(parent))
            ELSE ParentOf(parent)

\* -------------------------------------------------------- _existing_paths
RECURSIVE ExistingFrom(_, _, _, _)
ExistingFrom(fs, root, rel_paths, out) ==
    IF rel_paths = <<>> THEN out
    ELSE LET p == Resolve(fs, JoinPath(root, Head(rel_paths)))
             root_resolved == Resolve(fs, root)
         IN IF ~IsRelativeTo(p, root_resolved)
            THEN ExistingFrom(fs, root, Tail(rel_paths), out)
            ELSE IF p \in DOMAIN fs
                 THEN ExistingFrom(fs, root, Tail(rel_paths), Append(out, p))
                 ELSE ExistingFrom(fs, root, Tail(rel_paths), out)

\* the same without the relative_to test: whatever exists is kept
_existing_paths_NoBoundary(fs, root, rel_paths) ==
    LET res == [i \in 1..Len(rel_paths) |-> Resolve(fs, JoinPath(root, rel_paths[i]))]
        there(p) == p \in DOMAIN fs
    IN SelectSeq(res, there)

_existing_paths(fs, root, rel_paths) == ExistingFrom(fs, root, rel_paths, <<>>)

\* --------------------------------------------------------- _parse_rg_line
NoMatch == [ok |-> FALSE, path |-> <<>>, line |-> 0, text |-> <<>>]

Match(path, line, text) == [ok |-> TRUE, path |-> path, line |-> line, text |-> text]

\* positions of ":" in s, and the first one after position k (0 when none)
ColonAfter(s, k) ==
    IF \E i \in (k + 1)..Len(s) : s[i] = ":"
    THEN CHOOSE i \in (k + 1)..Len(s) :
            s[i] = ":" /\ \A j \in (k + 1)..(i - 1) : s[j] # ":"
    ELSE 0

\* the same with line.split(":"): the text ends at the third colon
_parse_rg_line_SplitAll(line) ==
    LET c1 == ColonAfter(line, 0)
        c2 == IF c1 = 0 THEN 0 ELSE ColonAfter(line, c1)
        c3 == IF c2 = 0 THEN 0 ELSE ColonAfter(line, c2)
    IN IF c1 = 0 \/ c2 = 0 THEN NoMatch
       ELSE LET path == SubSeq(line, 1, c1 - 1)
                line_s == SubSeq(line, c1 + 1, c2 - 1)
                text == SubSeq(line, c2 + 1, IF c3 = 0 THEN Len(line) ELSE c3 - 1)
            IN IF ~IsIntStr(line_s) THEN NoMatch
               ELSE Match(path, StrToInt(line_s), text)

\* line.split(":", 2), int() of the second part
_parse_rg_line(line) ==
    LET c1 == ColonAfter(line, 0)
        c2 == IF c1 = 0 THEN 0 ELSE ColonAfter(line, c1)
    IN IF c1 = 0 \/ c2 = 0 THEN NoMatch
       ELSE LET path == SubSeq(line, 1, c1 - 1)
                line_s == SubSeq(line, c1 + 1, c2 - 1)
                text == SubSeq(line, c2 + 1, Len(line))
            IN IF ~IsIntStr(line_s) THEN NoMatch
               ELSE Match(path, StrToInt(line_s), text)

\* ------------------------------------------------------------------ globs
\* the suffix of a file name, for fnmatch against "*.<suffix>"
SuffixOf(name) ==
    CASE name \in {"a.txt", "n.txt", "l.txt", "s.txt", "k.txt"} -> "txt"
      [] name \in {"b.md"} -> "md"
      [] name \in {"needle.py"} -> "py"
      [] OTHER -> ""

GlobSuffix(g) ==
    CASE g = "*.txt" -> "txt"
      [] g = "*.md" -> "md"
      [] OTHER -> "?"

GlobMatches(g, name) == g = "*" \/ GlobSuffix(g) = SuffixOf(name)

RECURSIVE Concat(_)
Concat(ss) == IF ss = <<>> THEN <<>> ELSE Head(ss) \o Concat(Tail(ss))

\* the directories below base in the order Path.rglob walks them: base
\* first, then each entry that is a directory and not a link, recursively
RECURSIVE IterateDirectories(_, _)
IterateDirectories(fs, base) ==
    IF ~(base \in DOMAIN fs /\ fs[base].kind = "dir") THEN <<>>
    ELSE LET ents == fs[base].entries
             sub(i) == LET c == Append(base, ents[i])
                       IN IF c \in DOMAIN fs /\ fs[c].kind = "dir"
                          THEN IterateDirectories(fs, c) ELSE <<>>
         IN <<base>> \o Concat([i \in 1..Len(ents) |-> sub(i)])

\* base.rglob(g): in every walked directory, the entries whose name matches
RGlob(fs, base, g) ==
    LET dirs == IterateDirectories(fs, base)
        hits(d) == LET ents == fs[d].entries
                       keep(n) == GlobMatches(g, n)
                   IN [i \in 1..Len(SelectSeq(ents, keep)) |->
                          Append(d, SelectSeq(ents, keep)[i])]
    IN Concat([k \in 1..Len(dirs) |-> hits(dirs[k])])

\* _iter_files: a target that is a file is yielded as it is; a directory
\* is globbed once per glob, in glob order
_iter_files(fs, paths, globs) ==
    LET one(base) == IF IsFile(fs, base) THEN <<base>>
                     ELSE Concat([j \in 1..Len(globs) |-> RGlob(fs, base, globs[j])])
    IN Concat([i \in 1..Len(paths) |-> one(paths[i])])

\* f.open("r"): the node that is read, after links; fails (OSError) on a
\* missing target, a directory or a file without read permission
CanOpen(fs, f) ==
    LET t == Resolve(fs, f)
    IN t \in DOMAIN fs /\ fs[t].kind = "file" /\ fs[t].readable

\* the lines the iteration over the open file delivers: all of them, or
\* those before the read that raises OSError
LinesOf(fs, f) ==
    LET n == fs[Resolve(fs, f)]
    IN IF n.fault = 0 THEN n.lines ELSE SubSeq(n.lines, 1, n.fault - 1)

\* --------------------------------------------------- _run_python_fallback
\* max_hits = 0 stands for None (max_hits is at least 1 otherwise)
NoLimit == 0

\* A scan state: the matches so far, the log of opens (line 0) and of line
\* comparisons, and how the scan stands: "run", "returned" (cap reached) or
\* "raised" (ValueError out of relative_to, which no handler catches).
ScanStart == [matches |-> <<>>, log |-> <<>>, status |-> "run"]

\* the same stopping one match late
CapReached_Late(max_hits, n) == max_hits # NoLimit /\ n > max_hits

\* line 176
CapReached(max_hits, n) == max_hits # NoLimit /\ n >= max_hits

RECURSIVE ScanLines(_, _, _, _, _, _, _, _)
ScanLines(fs, root, f, i, needle_cmp, case_sensitive, max_hits, st) ==
    LET lines == LinesOf(fs, f) IN
    IF i > Len(lines) THEN st
    ELSE LET line == lines[i]
             hay == IF case_sensitive THEN line ELSE LowerStr(line)
             seen == [st EXCEPT !.log = Append(@, <<f, i>>)]
         IN IF ~Contains(hay, needle_cmp)
            THEN ScanLines(fs, root, f, i + 1, needle_cmp, case_sensitive, max_hits, seen)
            ELSE IF ~IsRelativeTo(Resolve(fs, f), Resolve(fs, root))
                 THEN [seen EXCEPT !.status = "raised"]
                 ELSE LET rel == RelStr(Resolve(fs, f), Resolve(fs, root))
                          got == [seen EXCEPT !.matches = Append(@, Match(rel, i, line))]
                      IN IF CapReached(max_hits, Len(got.matches))
                         THEN [got EXCEPT !.status = "returned"]
                         ELSE ScanLines(fs, root, f, i + 1, needle_cmp,
                                        case_sensitive, max_hits, got)

RECURSIVE ScanFiles(_, _, _, _, _, _, _)
ScanFiles(fs, root, files, needle_cmp, case_sensitive, max_hits, st) ==
    IF files = <<>> \/ st.status # "run" THEN st
    ELSE LET f == Head(files)
             tried == [st EXCEPT !.log = Append(@, <<f, 0>>)]
             after == IF CanOpen(fs, f)
                      THEN ScanLines(fs, root, f, 1, needle_cmp, case_sensitive,
                                     max_hits, tried)
                      ELSE tried
         IN ScanFiles(fs, root, Tail(files), needle_cmp, case_sensitive, max_hits, after)

_run_python_fallback(fs, root, needle, paths, globs, case_sensitive, max_hits) ==
    LET needle_cmp == IF case_sensitive THEN needle ELSE LowerStr(needle)
    IN ScanFiles(fs, root, _iter_files(fs, paths, globs), needle_cmp,
                 case_sensitive, max_hits, ScanStart)

\* --------------------------------------------------- _read_context_window
Max2(a, b) == IF a >= b THEN a ELSE b

RECURSIVE WindowLoop(_, _, _, _, _)
WindowLoop(lines, i, start, end, out) ==
    IF i > Len(lines) THEN out
    ELSE IF i < start THEN WindowLoop(lines, i + 1, start, end, out)
    ELSE IF i > end THEN out
    ELSE WindowLoop(lines, i + 1, start, end, Append(out, <<i, lines[i]>>))

\* the same with the last line of the window left out
ReadWindow_ShortEnd(readable, lines, line_no, around) ==
    LET start == Max2(1, line_no - around)
        end == line_no + around - 1
    IN IF ~readable THEN <<>> ELSE WindowLoop(lines, 1, start, end, <<>>)

\* readable = FALSE is the open() that raises OSError
ReadWindow(readable, lines, line_no, around) ==
    LET start == Max2(1, line_no - around)
        end == line_no + around
    IN IF ~readable THEN <<>> ELSE WindowLoop(lines, 1, start, end, <<>>)

\* the same discarding the lines collected when a read raises OSError
_read_context_window_EmptyOnError(fs, path, line_no, around) ==
    IF CanOpen(fs, path) /\ fs[Resolve(fs, path)].fault = 0
    THEN ReadWindow(TRUE, LinesOf(fs, path), line_no, around)
    ELSE <<>>

_read_context_window(fs, path, line_no, around) ==
    IF CanOpen(fs, path)
    THEN ReadWindow(TRUE, LinesOf(fs, path), line_no, around)
    ELSE ReadWindow(FALSE, <<>>, line_no, around)

\* ----------------------------------------------------------------- _run_rg
\* The rg process that _run_rg starts with  -n --no-heading -S [-F]
\* [--case-sensitive] -g <glob>... <needle> <absolute paths>.

HasUpper(s) == \E i \in 1..Len(s) : Lower(s[i]) # s[i]

\* -S (smart case) unless --case-sensitive: the search ignores case only
\* when the pattern has no upper-case letter
\* (without -F the needle is a pattern; the needles drawn here have no
\* metacharacter, so the pattern matches what the literal matches)
RgLineMatches(cmd, line) ==
    IF cmd.case_sensitive \/ HasUpper(cmd.needle)
    THEN Contains(line, cmd.needle)
    ELSE Contains(LowerStr(line), cmd.needle)

\* the regular files rg visits below a directory: links are not followed
RgWalk(fs, base) ==
    LET dirs == IterateDirectories(fs, base)
        files(d) == LET ents == fs[d].entries
                        isfile(n) == fs[Append(d, n)].kind = "file"
                    IN [i \in 1..Len(SelectSeq(ents, isfile)) |->
                           Append(d, SelectSeq(ents, isfile)[i])]
    IN Concat([k \in 1..Len(dirs) |-> files(dirs[k])])

\* a path given on the command line is searched as it is; below a
\* directory the -g globs select the files
RgCandidates(fs, cmd) ==
    LET keep(f) == \E j \in 1..Len(cmd.globs) : GlobMatches(cmd.globs[j], NameOf(f))
        one(base) == IF IsFile(fs, base) THEN <<base>>
                     ELSE SelectSeq(RgWalk(fs, base), keep)
    IN Concat([i \in 1..Len(cmd.paths) |-> one(cmd.paths[i])])

\* rg prints the file name unless the only path given is a file
RgWithFilename(fs, cmd) == Len(cmd.paths) > 1 \/ IsDir(fs, cmd.paths[1])

RgFileOutput(fs, cmd, f) ==
    LET lines == LinesOf(fs, f)
        hit(i) == RgLineMatches(cmd, lines[i])
        prefix == IF RgWithFilename(fs, cmd) THEN AbsStr(f) \o <<":">> ELSE <<>>
        rec(i) == IF hit(i) THEN <<prefix \o IntToStr(i) \o <<":">> \o lines[i]>> ELSE <<>>
    IN IF fs[f].readable THEN Concat([i \in 1..Len(lines) |-> rec(i)]) ELSE <<>>

RgHitFiles(fs, cmd) ==
    LET has(f) == RgFileOutput(fs, cmd, f) # <<>>
    IN SelectSeq(RgCandidates(fs, cmd), has)

\* the standard output when the files are reported in the order perm
RgStdout(fs, cmd, perm) ==
    LET hits == RgHitFiles(fs, cmd)
    IN Concat([k \in 1..Len(hits) |-> RgFileOutput(fs, cmd, hits[perm[k]])])

RgUnreadable(fs, cmd) ==
    LET cands == RgCandidates(fs, cmd)
    IN \E k \in 1..Len(cands) : ~fs[cands[k]].readable \/ fs[cands[k]].fault # 0

\* the outcomes of the process: a normal exit (0 with records, 1 without),
\* exit 2 with a message (always when a file cannot be read), or a death
\* by signal with nothing on stderr
RgOutcomes(fs, cmd) ==
    LET hits == RgHitFiles(fs, cmd)
        outs == {RgStdout(fs, cmd, perm) : perm \in Permutations(1..Len(hits))}
        normal == {[returncode |-> IF o = <<>> THEN 1 ELSE 0, stdout |-> o,
                    stderr |-> <<>>, ran |-> TRUE] : o \in outs}
        failed == {[returncode |-> 2, stdout |-> o, stderr |-> <<"rg: error">>,
                    ran |-> TRUE] : o \in outs}
        killed == {[returncode |-> -9, stdout |-> <<>>, stderr |-> <<>>, ran |-> TRUE]}
    IN (IF RgUnreadable(fs, cmd) THEN {} ELSE normal) \cup failed \cup killed

\* the loop over proc.stdout.splitlines()
\* the same stopping one record late
RgCapReached_Late(max_hits, n) == max_hits # NoLimit /\ n > max_hits

\* line 143: max_hits is not None and len(matches) >= max_hits
RgCapReached(max_hits, n) == max_hits # NoLimit /\ n >= max_hits

RECURSIVE ParseLoop(_, _, _)
ParseLoop(raws, matches, max_hits) ==
    IF raws = <<>> THEN matches
    ELSE LET m == _parse_rg_line(Head(raws)) IN
         IF ~m.ok THEN ParseLoop(Tail(raws), matches, max_hits)
         ELSE LET got == Append(matches, m) IN
              IF RgCapReached(max_hits, Len(got)) THEN got
              ELSE ParseLoop(Tail(raws), got, max_hits)

RgCommand(needle, paths, globs, fixed, case_sensitive) ==
    [needle |-> needle, paths |-> paths, globs |-> globs, fixed |-> fixed,
     case_sensitive |-> case_sensitive]

\* the message of the RuntimeError
RgFailure(proc) ==
    IF proc.stderr # <<>> THEN proc.stderr
    ELSE <<"rg failed with code", IF proc.returncode = -9 THEN "-9" ELSE "2">>

\* _run_rg once the process has ended as proc
_run_rg(proc, max_hits) ==
    IF proc.returncode \notin {0, 1}
    THEN [raised |-> TRUE, message |-> RgFailure(proc), matches |-> <<>>]
    ELSE [raised |-> FALSE, message |-> <<>>,
          matches |-> ParseLoop(proc.stdout, <<>>, max_hits)]

\* ------------------------------------------------------------ environment
\* where needle.py lives
ToolFile == <<"r", "scripts", "master", "needle.py">>

Outside == (<<"o">> :> DirNode(<<"s.txt">>))
        @@ (<<"o", "s.txt">> :> FileNode(<< <<"needle">> >>))

ToolTree == (<<"r", "scripts">> :> DirNode(<<"master">>))
         @@ (<<"r", "scripts", "master">> :> DirNode(<<"needle.py">>))
         @@ (ToolFile :> FileNode(<< <<"x">> >>))

LinesA == << <<"needle">>, <<"x">>, <<"2", ":", "Needle">>, <<"needle", "x">> >>

LinesB == << <<"x">>, <<"Needle">> >>

LinesN == << <<"one">>, <<"two", "needle", "three">>, <<"four">> >>

\* transcripts only, under a repository marker
FsClean ==
    Outside @@ ToolTree
    @@ (<<"r">> :> DirNode(<<".git", "chatgpt", "lnk", "n.txt", "scripts">>))
    @@ (<<"r", ".git">> :> DirNode(<<>>))
    @@ (<<"r", "lnk">> :> LinkNode(<<"o">>))
    @@ (<<"r", "n.txt">> :> FileNode(LinesN))
    @@ (<<"r", "chatgpt">> :> DirNode(<<"a.txt", "codex_transcripts">>))
    @@ (<<"r", "chatgpt", "a.txt">> :> FileNode(LinesA))
    @@ (<<"r", "chatgpt", "codex_transcripts">> :> DirNode(<<"b.md">>))
    @@ (<<"r", "chatgpt", "codex_transcripts", "b.md">> :> FileNode(LinesB))

\* the same with a file nobody may read and a link to a file outside
FsRough ==
    Outside @@ ToolTree
    @@ (<<"r">> :> DirNode(<<"chatgpt", "lnk", "scripts">>))
    @@ (<<"r", "lnk">> :> LinkNode(<<"o">>))
    @@ (<<"r", "chatgpt">> :> DirNode(<<"a.txt", "l.txt", "k.txt", "codex_transcripts">>))
    @@ (<<"r", "chatgpt", "a.txt">> :> FileNode(LinesA))
    @@ (<<"r", "chatgpt", "k.txt">> :> LockedNode(LinesA))
    @@ (<<"r", "chatgpt", "l.txt">> :> LinkNode(<<"o", "s.txt">>))
    @@ (<<"r", "chatgpt", "codex_transcripts">> :> DirNode(<<"b.md">>))
    @@ (<<"r", "chatgpt", "codex_transcripts", "b.md">> :> FileNode(LinesB))

\* none of the default directories
FsBare ==
    Outside @@ ToolTree
    @@ (<<"r">> :> DirNode(<<"n.txt", "scripts">>))
    @@ (<<"r", "n.txt">> :> FileNode(LinesN))

\* a transcript whose second line cannot be read
FsFaulty ==
    Outside @@ ToolTree
    @@ (<<"r">> :> DirNode(<<"chatgpt", "scripts">>))
    @@ (<<"r", "chatgpt">> :> DirNode(<<"a.txt", "b.md">>))
    @@ (<<"r", "chatgpt", "a.txt">> :> FaultyNode(LinesA, 2))
    @@ (<<"r", "chatgpt", "b.md">> :> FileNode(LinesB))

Filesystems == {FsClean, FsRough, FsBare, FsFaulty}

Unset == [set |-> FALSE, value |-> <<>>]

Environs == {Unset, [set |-> TRUE, value |-> <<"/", "r", "chatgpt">>]}

\* ---------------------------------------------------------------- requests
Needles == {<<"needle">>, <<"Needle">>}

\* args.paths: None without --paths, else the list that followed it
NoPaths == [given |-> FALSE, specs |-> <<>>]

PathLists ==
    { << <<"chatgpt">> >>,
      << <<"missing">> >>,
      << <<"..", "o">> >>,
      << <<"/", "o">> >>,
      << <<"lnk">> >>,
      << <<"lnk", "..", "r", "n.txt">> >>,
      << <<"chatgpt", "a.txt">> >>,
      << <<"chatgpt">>, <<"chatgpt", "codex_transcripts">> >>,
      << <<"..", "o">>, <<"n.txt">> >> }

PathArgs == {NoPaths, [given |-> TRUE, specs |-> <<>>]}
            \cup {[given |-> TRUE, specs |-> l] : l \in PathLists}

\* --glob values with --all-files
GlobArgs ==
    {[glob |-> <<>>, all_files |-> FALSE],
     [glob |-> <<"*.md">>, all_files |-> FALSE],
     [glob |-> <<"*.txt", "*.txt">>, all_files |-> FALSE],
     [glob |-> <<>>, all_files |-> TRUE]}

Requests ==
    [needle : Needles, paths : PathArgs, globs : GlobArgs, regex : BOOLEAN,
     case_sensitive : BOOLEAN, max : (-1)..MaxCap, around : 0..MaxAround,
     json : BOOLEAN]

\* ------------------------------------------------------------------- state
VARIABLES
    fs,            \* the filesystem
    environ,       \* NEEDLE_ROOT
    rg_installed,  \* whether shutil.which("rg") finds the engine
    args,          \* the parsed command line
    pc,            \* the stage main has reached
    root, paths, globs, max_hits, rg_ok,   \* main's locals
    proc,          \* the finished rg process
    scan,          \* the fallback scan
    matches,
    exit_code,     \* -1 while the process runs
    out,           \* what was printed on standard output
    err,           \* what was printed on the diagnostic stream
    win,           \* one call of _read_context_window: arguments and result
    prs,           \* one call of the parse loop of _run_rg: arguments and result
    calls          \* how often the probe and each backend were called

vars == <<win, prs, calls, fs, environ, rg_installed, args, pc, root, paths, globs, max_hits,
          rg_ok, proc, scan, matches, exit_code, out, err>>

NoProc == [returncode |-> 0, stdout |-> <<>>, stderr |-> <<>>, ran |-> FALSE]

NoOutput == [count |-> -1, matches |-> <<>>, windows |-> <<>>]

NoCall == [lines |-> <<>>, line_no |-> 1, around |-> 0, result |-> <<>>, done |-> FALSE]

NoParse == [raws |-> <<>>, max_hits |-> NoLimit, parsed |-> <<>>, result |-> <<>>,
            done |-> FALSE]

NoCalls == [which |-> 0, rg |-> 0, fallback |-> 0]

Init ==
    /\ fs \in Filesystems
    /\ environ \in Environs
    /\ rg_installed \in BOOLEAN
    /\ args \in Requests
    /\ pc = "received"
    /\ root = <<>>
    /\ paths = <<>>
    /\ globs = <<>>
    /\ max_hits = NoLimit
    /\ rg_ok = FALSE
    /\ proc = NoProc
    /\ scan = ScanStart
    /\ matches = <<>>
    /\ exit_code = -1
    /\ out = NoOutput
    /\ err = <<>>
    /\ win = NoCall
    /\ prs = NoParse
    /\ calls = NoCalls

\* line 224
ResolveRoot ==
    /\ pc = "received"
    /\ root' = _repo_root(fs, environ, ToolFile)
    /\ pc' = "root_resolved"
    /\ UNCHANGED calls
    /\ UNCHANGED <<win, prs, fs, environ, rg_installed, args, paths, globs, max_hits, rg_ok,
                   proc, scan, matches, exit_code, out, err>>

\* the two usage errors, lines 232 and 257
NoValidMsg == <<"No valid search paths found.">>

UnsupportedMsg == <<"rg not found; --regex not supported in fallback mode.">>

\* the same with the test of args.paths dropped
NoValidPaths_DefaultsToo(found, given) == found = <<>> /\ ~given

\* lines 227-231: nothing survived and --paths was on the command line
NoValidPaths(found, given) == found = <<>> /\ given

\* lines 225-234
ValidatePaths ==
    /\ pc = "root_resolved"
    /\ LET rel_paths == IF args.paths.given /\ Len(args.paths.specs) > 0
                        THEN args.paths.specs ELSE DEFAULT_PATHS
           found == _existing_paths(fs, root, rel_paths)
       IN IF NoValidPaths(found, args.paths.given)
          THEN /\ err' = NoValidMsg
               /\ exit_code' = 2
               /\ pc' = "failed"
               /\ UNCHANGED paths
          ELSE /\ paths' = IF found = <<>> THEN <<root>> ELSE found
               /\ pc' = "paths_validated"
               /\ UNCHANGED <<err, exit_code>>
    /\ UNCHANGED calls
    /\ UNCHANGED <<win, prs, fs, environ, rg_installed, args, root, globs, max_hits, rg_ok,
                   proc, scan, matches, out>>

\* the cap taken one too large
MaxHits_OffByOne(max) == IF max = 0 THEN NoLimit ELSE Max2(1, max) + 1

\* 0 clamped like the negative values instead of meaning unlimited
MaxHits_ZeroClamped(max) == Max2(1, max)

\* line 241
MaxHits(max) == IF max = 0 THEN NoLimit ELSE Max2(1, max)

\* the same without the test of args.regex
RegexUnsupported_Ignored(found, regex) == FALSE

\* lines 246, 255-256: only the fallback is left and it has no regex mode
RegexUnsupported(found, regex) == ~found /\ regex

\* the same looking for an engine that is never there
Which_Never(installed) == FALSE

\* line 244: shutil.which("rg") is not None
Which(installed) == installed

\* lines 236-244 and 255-258
BindBackend ==
    /\ pc = "paths_validated"
    /\ globs' = IF args.globs.all_files THEN <<"*">>
                ELSE IF args.globs.glob # <<>> THEN args.globs.glob
                ELSE DEFAULT_GLOBS
    /\ max_hits' = MaxHits(args.max)
    /\ rg_ok' = Which(rg_installed)
    /\ calls' = [calls EXCEPT !.which = @ + 1]
    /\ IF RegexUnsupported(Which(rg_installed), args.regex)
       THEN /\ err' = UnsupportedMsg
            /\ exit_code' = 2
            /\ pc' = "failed"
       ELSE /\ pc' = "backend_bound"
            /\ UNCHANGED <<err, exit_code>>
    /\ UNCHANGED <<win, prs, fs, environ, rg_installed, args, root, paths, proc, scan,
                   matches, out>>

\* lines 246-254 and 266-268: subprocess.run raises when its cwd is not a
\* directory, and nothing catches that
RunRg ==
    /\ pc = "backend_bound"
    /\ rg_ok
    /\ calls' = [calls EXCEPT !.rg = @ + 1]
    /\ IF ~IsDir(fs, _repo_root(fs, environ, ToolFile))
       THEN /\ pc' = "crashed"
            /\ exit_code' = 1
            /\ err' = <<"Traceback">>
            /\ UNCHANGED <<proc, matches>>
       ELSE \E p \in RgOutcomes(fs, RgCommand(args.needle, paths, globs,
                                              ~args.regex, args.case_sensitive)) :
              LET res == _run_rg(p, max_hits) IN
              /\ proc' = p
              /\ IF res.raised
                 THEN /\ err' = res.message
                      /\ exit_code' = 1
                      /\ pc' = "failed"
                      /\ UNCHANGED matches
                 ELSE /\ matches' = res.matches
                      /\ pc' = "backend_executed"
                      /\ UNCHANGED <<err, exit_code>>
    /\ UNCHANGED <<win, prs, fs, environ, rg_installed, args, root, paths, globs, max_hits,
                   rg_ok, scan, out>>

\* lines 255-265: a ValueError raised by the scan is not a RuntimeError
RunPythonFallback ==
    /\ pc = "backend_bound"
    /\ ~rg_ok
    /\ calls' = [calls EXCEPT !.fallback = @ + 1]
    /\ LET res == _run_python_fallback(fs, _repo_root(fs, environ, ToolFile),
                                       args.needle, paths, globs,
                                       args.case_sensitive, max_hits)
       IN /\ scan' = res
          /\ IF res.status = "raised"
             THEN /\ pc' = "crashed"
                  /\ exit_code' = 1
                  /\ err' = <<"Traceback">>
                  /\ UNCHANGED matches
             ELSE /\ matches' = res.matches
                  /\ pc' = "backend_executed"
                  /\ UNCHANGED <<err, exit_code>>
    /\ UNCHANGED <<win, prs, fs, environ, rg_installed, args, root, paths, globs, max_hits,
                   rg_ok, proc, out>>

\* lines 270-299
Render ==
    /\ pc = "backend_executed"
    /\ out' = IF args.json \/ matches = <<>> \/ args.around <= 0
              THEN [count |-> Len(matches), matches |-> matches, windows |-> <<>>]
              ELSE [count |-> Len(matches), matches |-> matches,
                    windows |-> [k \in 1..Len(matches) |->
                        _read_context_window(fs, JoinPath(root, matches[k].path),
                                             matches[k].line, args.around)]]
    /\ exit_code' = 0
    /\ pc' = "rendered"
    /\ UNCHANGED calls
    /\ UNCHANGED <<win, prs, fs, environ, rg_installed, args, root, paths, globs, max_hits,
                   rg_ok, proc, scan, matches, err>>

Next ==
    \/ ResolveRoot
    \/ ValidatePaths
    \/ BindBackend
    \/ RunRg
    \/ RunPythonFallback
    \/ Render

Spec == Init /\ [][Next]_vars

\* ------------------------------------------- _read_context_window, alone
\* longest file and largest radius of a call
MaxLines == 12
MaxRadius == 2

\* line i of a test file is i times the token "x"
LineText(i) == [j \in 1..i |-> "x"]

InitWindow ==
    /\ fs = FsClean
    /\ environ = Unset
    /\ rg_installed = FALSE
    /\ args = [needle |-> <<"needle">>, paths |-> NoPaths,
               globs |-> [glob |-> <<>>, all_files |-> FALSE], regex |-> FALSE,
               case_sensitive |-> FALSE, max |-> 0, around |-> 0, json |-> FALSE]
    /\ pc = "received"
    /\ root = <<>>
    /\ paths = <<>>
    /\ globs = <<>>
    /\ max_hits = NoLimit
    /\ rg_ok = FALSE
    /\ proc = NoProc
    /\ scan = ScanStart
    /\ matches = <<>>
    /\ exit_code = -1
    /\ out = NoOutput
    /\ err = <<>>
    /\ prs = NoParse
    /\ calls = NoCalls
    /\ \E n \in 0..MaxLines, l \in 1..(MaxLines + 1), r \in 0..MaxRadius :
          win = [lines |-> [i \in 1..n |-> LineText(i)], line_no |-> l,
                 around |-> r, result |-> <<>>, done |-> FALSE]

CallWindow ==
    /\ ~win.done
    /\ win' = [win EXCEPT !.result = ReadWindow(TRUE, win.lines, win.line_no, win.around),
                          !.done = TRUE]
    /\ UNCHANGED <<prs, calls, fs, environ, rg_installed, args, pc, root, paths, globs,
                   max_hits, rg_ok, proc, scan, matches, exit_code, out, err>>

NextWindow == CallWindow

SpecWindow == InitWindow /\ [][NextWindow]_vars

\* ------------------------------------------------ the parse loop, alone
\* longest line of engine output, in tokens
MaxLineLen == 5

Alphabet == {"a", ":", "1"}

RawLines == UNION {[1..n -> Alphabet] : n \in 0..MaxLineLen}

\* a record, a record whose text has a colon, and two lines that are none
Neighbours == { <<"a", ":", "1", ":", "a">>, <<"a", ":", "1", "1", ":", ":", "a">>,
                <<"a", ":", "a">>, <<"a", ":", "a", ":", "a">> }

RawOutputs ==
    {<<l>> : l \in RawLines}
    \cup {<<l, m>> : l \in RawLines, m \in Neighbours}
    \cup {<<m, l>> : l \in RawLines, m \in Neighbours}
    \cup {<<l, m, n>> : l \in RawLines, m \in Neighbours, n \in Neighbours}

InitParse ==
    /\ fs = FsClean
    /\ environ = Unset
    /\ rg_installed = FALSE
    /\ args = [needle |-> <<"needle">>, paths |-> NoPaths,
               globs |-> [glob |-> <<>>, all_files |-> FALSE], regex |-> FALSE,
               case_sensitive |-> FALSE, max |-> 0, around |-> 0, json |-> FALSE]
    /\ pc = "received"
    /\ root = <<>>
    /\ paths = <<>>
    /\ globs = <<>>
    /\ max_hits = NoLimit
    /\ rg_ok = FALSE
    /\ proc = NoProc
    /\ scan = ScanStart
    /\ matches = <<>>
    /\ exit_code = -1
    /\ out = NoOutput
    /\ err = <<>>
    /\ win = NoCall
    /\ calls = NoCalls
    /\ \E o \in RawOutputs, m \in {MaxHits(c) : c \in 0..MaxCap} :
          prs = [raws |-> o, max_hits |-> m, parsed |-> <<>>, result |-> <<>>,
                 done |-> FALSE]

\* lines 137-145 on the lines prs.raws
CallParse ==
    /\ ~prs.done
    /\ prs' = [prs EXCEPT !.parsed = [k \in 1..Len(prs.raws) |-> _parse_rg_line(prs.raws[k])],
                          !.result = ParseLoop(prs.raws, <<>>, prs.max_hits),
                          !.done = TRUE]
    /\ UNCHANGED <<win, calls, fs, environ, rg_installed, args, pc, root, paths, globs,
                   max_hits, rg_ok, proc, scan, matches, exit_code, out, err>>

NextParse == CallParse

SpecParse == InitParse /\ [][NextParse]_vars

TypeOK ==
    /\ pc \in {"received", "root_resolved", "paths_validated", "backend_bound",
               "backend_executed", "rendered", "failed", "crashed"}
    /\ exit_code \in {-1, 0, 1, 2}

\* ------------------------------------------------------------ properties
Within(p, b) == Len(b) <= Len(p) /\ \A i \in 1..Len(b) : p[i] = b[i]

Executed == pc \in {"backend_executed", "rendered"}

Ended == exit_code # -1

\* the list _existing_paths is given, and whether one of its specs survives
ValidatedList ==
    IF args.paths.given /\ args.paths.specs # <<>> THEN args.paths.specs ELSE DEFAULT_PATHS

Survives(spec) ==
    LET p == Resolve(fs, JoinPath(root, spec))
    IN Within(p, Resolve(fs, root)) /\ p \in DOMAIN fs

NoneSurvives == \A i \in 1..Len(ValidatedList) : ~Survives(ValidatedList[i])

PastValidation == pc \notin {"received", "root_resolved"}

\* C1 as stated: with a nonzero cap, the number of matches returned and the
\* count reported are at most the requested cap.
C1_CountWithinRequestedCap ==
    (Executed /\ args.max # 0) =>
        /\ Len(matches) <= args.max
        /\ (pc = "rendered" => out.count <= args.max)

\* C1 amended: with a nonzero cap, the number of matches returned and the
\* count reported are at most max(1, cap); a negative cap counts as 1.
C1_CountWithinCap ==
    (Executed /\ args.max # 0) =>
        /\ Len(matches) <= Max2(1, args.max)
        /\ (pc = "rendered" => out.count <= Max2(1, args.max))
        /\ (pc = "rendered" => Len(out.matches) <= Max2(1, args.max))

\* a run of the engine that had more records than the cap, cut at the cap
C1_Witness ==
    /\ pc = "rendered"
    /\ args.max > 0
    /\ proc.ran
    /\ Len(proc.stdout) > args.max
    /\ out.count = args.max

\* C2: for a literal needle the engine's run and the fallback's run over the
\* same corpus, paths, globs and case flag return the same set of (file,
\* line) pairs; a path is taken as the file it denotes below the boundary.
PairsOf(ms) == {<<Resolve(fs, JoinPath(root, ms[k].path)), ms[k].line>> : k \in 1..Len(ms)}

C2_BackendsAgree ==
    (pc = "backend_bound" /\ ~args.regex) =>
        LET cmd == RgCommand(args.needle, paths, globs, TRUE, args.case_sensitive)
            fb == _run_python_fallback(fs, root, args.needle, paths, globs,
                                       args.case_sensitive, NoLimit)
        IN \A p \in RgOutcomes(fs, cmd) :
              (p.returncode \in {0, 1} /\ fb.status # "raised") =>
                  PairsOf(_run_rg(p, NoLimit).matches) = PairsOf(fb.matches)

\* C3: a spec of the validated list whose resolved path is not within the
\* resolved boundary is not among the validated paths.
C3_EscapesExcluded ==
    PastValidation =>
        \A i \in 1..Len(ValidatedList) :
            LET p == Resolve(fs, JoinPath(root, ValidatedList[i]))
            IN ~Within(p, Resolve(fs, root)) => \A k \in 1..Len(paths) : paths[k] # p

\* an escaping spec that exists on disk was dropped and another one kept
C3_Witness ==
    /\ pc = "paths_validated"
    /\ args.paths.given
    /\ paths # <<>>
    /\ \E i \in 1..Len(ValidatedList) :
          LET p == Resolve(fs, JoinPath(root, ValidatedList[i]))
          IN ~Within(p, Resolve(fs, root)) /\ p \in DOMAIN fs

\* C4 as stated: a regex request without the engine ends with the
\* unsupported-mode error and exit code 2, and the fallback never runs.
C4_RegexAlwaysUnsupportedError ==
    (args.regex /\ ~rg_installed) =>
        /\ pc \notin {"backend_bound", "backend_executed", "rendered", "crashed"}
        /\ (Ended => exit_code = 2 /\ err = UnsupportedMsg)

\* C4 amended: a regex request without the engine ends with exit code 2 and
\* the fallback never runs; the error is the unsupported-mode error unless
\* path validation, which comes first, has already failed the run.
C4_RegexNeverFallsBack ==
    (args.regex /\ ~rg_installed) =>
        /\ pc \notin {"backend_bound", "backend_executed", "rendered", "crashed"}
        /\ scan = ScanStart /\ matches = <<>> /\ out = NoOutput
        /\ (Ended => /\ exit_code = 2
                     /\ pc = "failed"
                     /\ err = IF args.paths.given /\ NoneSurvives
                              THEN NoValidMsg ELSE UnsupportedMsg)

C4_Witness ==
    /\ args.regex /\ ~rg_installed
    /\ pc = "failed"
    /\ err = UnsupportedMsg
    /\ paths # <<>>

\* C5: when the caller gave target paths and none survives validation the
\* run exits with code 2, no backend runs and no match is emitted.
C5_ExplicitPathsFatal ==
    (PastValidation /\ args.paths.given /\ args.paths.specs # <<>> /\ NoneSurvives) =>
        /\ pc = "failed"
        /\ exit_code = 2
        /\ err = NoValidMsg
        /\ ~proc.ran /\ scan = ScanStart
        /\ matches = <<>> /\ out = NoOutput

C5_Witness ==
    /\ pc = "failed"
    /\ exit_code = 2
    /\ args.paths.given /\ args.paths.specs # <<>>
    /\ NoneSurvives
    /\ \E i \in 1..Len(args.paths.specs) :
          Resolve(fs, JoinPath(root, args.paths.specs[i])) \in DOMAIN fs

\* C6: when the default list is the one validated (the caller named no path
\* spec) and none of its entries survives, the run does not fail on its
\* paths: the target list is exactly [boundary] and a rendered run exits 0.
C6_DefaultsFallBackToBoundary ==
    (PastValidation /\ ValidatedList = DEFAULT_PATHS /\ NoneSurvives) =>
        /\ ~(pc = "failed" /\ err = NoValidMsg)
        /\ paths = <<root>>
        /\ (pc = "rendered" => exit_code = 0)

\* C7: the exit code is 1 exactly when the engine ran and returned a status
\* other than 0 and 1 (its diagnostics are then what is written and nothing
\* is printed), 2 exactly on a usage error, and 0 otherwise.
UsageError ==
    \/ args.paths.given /\ NoneSurvives
    \/ args.regex /\ ~rg_installed

C7_ExitCodes ==
    Ended =>
        /\ (exit_code = 1) <=> (proc.ran /\ proc.returncode \notin {0, 1})
        /\ (exit_code = 1 /\ proc.stderr # <<>>) => (err = proc.stderr /\ out = NoOutput)
        /\ (exit_code = 2) <=> UsageError
        /\ exit_code \in {0, 1, 2}

\* C8: for a readable file of n lines, a match line L and a radius r the
\* window is the pairs (i, line i) for i = max(1, L-r) .. min(n, L+r), in
\* increasing contiguous order.
C8_WindowIsClippedRange ==
    win.done =>
        LET n == Len(win.lines)
            lo == Max2(1, win.line_no - win.around)
            hi == IF win.line_no + win.around <= n THEN win.line_no + win.around ELSE n
        IN /\ Len(win.result) = (IF hi >= lo THEN hi - lo + 1 ELSE 0)
           /\ \A k \in 1..Len(win.result) :
                 /\ win.result[k] = <<lo + k - 1, win.lines[lo + k - 1]>>
                 /\ win.result[k][1] >= 1 /\ win.result[k][1] <= n

\* radius 2 at line 10 gives 8..12
C8_Witness ==
    /\ win.done
    /\ win.line_no = 10 /\ win.around = 2 /\ Len(win.lines) >= 12
    /\ Len(win.result) = 5
    /\ win.result[1][1] = 8 /\ win.result[5][1] = 12

\* C9: the path of every match returned, by either backend, is in
\* boundary-relative form and is a validated target or a file beneath one.
C9_MatchPathsRelative ==
    Executed =>
        \A k \in 1..Len(matches) :
            /\ ~IsAbsStr(matches[k].path)
            /\ \E i \in 1..Len(paths) : Within(root \o matches[k].path, paths[i])
            /\ (root \o matches[k].path) \in DOMAIN fs

\* C10: with cap 0 nothing is dropped: the engine's run returns one match
\* per well-formed record, the fallback one match per matching line of
\* every file it could open, and the reported count is that number.
FallbackHits ==
    LET files == _iter_files(fs, paths, globs)
        ndl == IF args.case_sensitive THEN args.needle ELSE LowerStr(args.needle)
        hay(l) == IF args.case_sensitive THEN l ELSE LowerStr(l)
    IN {<<k, i>> \in (1..Len(files)) \X (1..Len(Digits)) :
           /\ CanOpen(fs, files[k])
           /\ i <= Len(LinesOf(fs, files[k]))
           /\ Contains(hay(LinesOf(fs, files[k])[i]), ndl)}

EngineRecords == {k \in 1..Len(proc.stdout) : _parse_rg_line(proc.stdout[k]).ok}

C10_ZeroCapUnlimited ==
    (Executed /\ args.max = 0) =>
        /\ rg_ok => Len(matches) = Cardinality(EngineRecords)
        /\ ~rg_ok => Len(matches) = Cardinality(FallbackHits)
        /\ (pc = "rendered" => out.count = Len(matches) /\ out.matches = matches)

\* more matches than any cap of the model, all reported
C10_Witness ==
    /\ pc = "rendered"
    /\ args.max = 0
    /\ out.count > MaxCap + 1
    /\ ~rg_ok

\* the fallback scanner was run
FallbackRan == ~rg_ok /\ calls.fallback > 0

\* C11: a failure on one enumerated file never fails a fallback scan: the
\* run does not end in an exception and, unless the cap stopped the scan,
\* every enumerated file was tried.
C11_BadFileNeverFails ==
    FallbackRan =>
        /\ pc # "crashed"
        /\ scan.status # "raised"
        /\ scan.status = "run" =>
              LET files == _iter_files(fs, paths, globs)
              IN \A k \in 1..Len(files) :
                    \E j \in 1..Len(scan.log) : scan.log[j] = <<files[k], 0>>

\* the file of the k-th printed match, as the renderer opens it
CtxPath(k) == JoinPath(root, out.matches[k].path)

\* a read of that file raises before the window is complete
ReadFails(k) ==
    /\ CanOpen(fs, CtxPath(k))
    /\ fs[Resolve(fs, CtxPath(k))].fault # 0
    /\ fs[Resolve(fs, CtxPath(k))].fault <= out.matches[k].line + args.around + 1

WindowsPrinted == pc = "rendered" /\ out.windows # <<>>

\* C12 as stated: when the file of a match cannot be opened or a read of it
\* fails, its window is empty, and every match is still printed.
C12_FailedReadGivesEmptyWindow ==
    WindowsPrinted =>
        /\ out.matches = matches /\ Len(out.windows) = Len(matches) /\ exit_code = 0
        /\ \A k \in 1..Len(out.matches) :
              (~CanOpen(fs, CtxPath(k)) \/ ReadFails(k)) => out.windows[k] = <<>>

\* C12 amended: when the file cannot be opened the window is empty; when a
\* read fails at line f the window holds the lines of the range that were
\* read before, max(1, L-r) .. min(L+r, f-1); every match is still printed.
C12_FailedReadKeepsLinesRead ==
    WindowsPrinted =>
        /\ out.matches = matches /\ Len(out.windows) = Len(matches) /\ exit_code = 0
        /\ \A k \in 1..Len(out.matches) :
              /\ ~CanOpen(fs, CtxPath(k)) => out.windows[k] = <<>>
              /\ ReadFails(k) =>
                    LET node == fs[Resolve(fs, CtxPath(k))]
                        lo == Max2(1, out.matches[k].line - args.around)
                        up == out.matches[k].line + args.around
                        hi == IF up <= node.fault - 1 THEN up ELSE node.fault - 1
                    IN /\ Len(out.windows[k]) = (IF hi >= lo THEN hi - lo + 1 ELSE 0)
                       /\ \A j \in 1..Len(out.windows[k]) :
                             out.windows[k][j] = <<lo + j - 1, node.lines[lo + j - 1]>>

\* a window cut short by a failing read, printed with its match
C12_Witness ==
    /\ WindowsPrinted
    /\ \E k \in 1..Len(out.matches) : ReadFails(k) /\ out.windows[k] # <<>>

\* a match whose file cannot be opened, printed with an empty window
C12_OpenFails ==
    /\ WindowsPrinted
    /\ \E k \in 1..Len(out.matches) : ~CanOpen(fs, CtxPath(k)) /\ out.windows[k] = <<>>

\* C13: a run goes received, root-resolved, paths-validated, backend-bound,
\* backend-executed (where the result is capped), rendered, one stage at a
\* time, and leaves this sequence only by the three failure exits, which
\* print nothing on standard output.
StageSteps ==
    { <<"received", "root_resolved">>, <<"root_resolved", "paths_validated">>,
      <<"paths_validated", "backend_bound">>, <<"backend_bound", "backend_executed">>,
      <<"backend_executed", "rendered">> }

FailureExit ==
    /\ pc' = "failed"
    /\ out' = NoOutput
    /\ \/ pc = "root_resolved" /\ err' = NoValidMsg
       \/ pc = "paths_validated" /\ err' = UnsupportedMsg
       \/ pc = "backend_bound" /\ proc'.ran /\ proc'.returncode \notin {0, 1}

C13_StagesInOrder == [][pc' # pc => (<<pc, pc'>> \in StageSteps \/ FailureExit)]_vars

\* C14: two runs of the engine on the same request, environment and corpus
\* that both end normally return the same ordered list of matches.
NormalOutcomes ==
    {p \in RgOutcomes(fs, RgCommand(args.needle, paths, globs, ~args.regex,
                                    args.case_sensitive)) : p.returncode \in {0, 1}}

C14_RunsRepeat ==
    (pc = "backend_bound" /\ rg_ok /\ IsDir(fs, root)) =>
        \A p1 \in NormalOutcomes, p2 \in NormalOutcomes :
            _run_rg(p1, max_hits).matches = _run_rg(p2, max_hits).matches

\* C16: in a fallback scan with a cap, once the matches reach the cap the
\* scan has returned: the matches are exactly cap many and the last step of
\* the scan is the comparison of the line of the last match.
C16_ScanStopsAtCap ==
    (FallbackRan /\ max_hits # NoLimit /\ Len(scan.matches) >= max_hits) =>
        /\ scan.status = "returned"
        /\ Len(scan.matches) = max_hits
        /\ LET last == scan.log[Len(scan.log)]
               m == scan.matches[Len(scan.matches)]
           IN /\ last[2] = m.line
              /\ RelStr(Resolve(fs, last[1]), Resolve(fs, root)) = m.path

\* the cap was reached with lines of the file and later files left
C16_Witness ==
    /\ FallbackRan
    /\ scan.status = "returned"
    /\ LET files == _iter_files(fs, paths, globs)
           last == scan.log[Len(scan.log)]
       IN /\ last[2] < Len(LinesOf(fs, last[1]))
          /\ \E k \in 1..Len(files) :
                CanOpen(fs, files[k])
                /\ \A j \in 1..Len(scan.log) : scan.log[j][1] # files[k]

\* C17: when a backend is about to run, the boundary is an existing
\* directory and every target path exists and lies within it.
C17_TargetsInsideBoundary ==
    pc = "backend_bound" =>
        /\ root \in DOMAIN fs /\ fs[root].kind = "dir"
        /\ \A i \in 1..Len(paths) : paths[i] \in DOMAIN fs /\ Within(paths[i], root)

\* C18: without cap and without I/O error the fallback returns, in
\* target, glob, enumeration and line order, exactly one match (relative
\* path, line number, line text) per line that contains the needle.
ScannedFiles == _iter_files(fs, paths, globs)

\* no file the scan opened failed to open or to be read
NoIOError ==
    \A j \in 1..Len(scan.log) :
        scan.log[j][2] = 0 =>
            CanOpen(fs, scan.log[j][1]) /\ fs[Resolve(fs, scan.log[j][1])].fault = 0

HitsOfFile(f) ==
    LET lines == fs[Resolve(fs, f)].lines
        ndl == IF args.case_sensitive THEN args.needle ELSE LowerStr(args.needle)
        hay(l) == IF args.case_sensitive THEN l ELSE LowerStr(l)
        one(i) == IF Contains(hay(lines[i]), ndl)
                  THEN <<Match(RelStr(Resolve(fs, f), Resolve(fs, root)), i, lines[i])>>
                  ELSE <<>>
    IN Concat([i \in 1..Len(lines) |-> one(i)])

ExpectedMatches == Concat([k \in 1..Len(ScannedFiles) |-> HitsOfFile(ScannedFiles[k])])

C18_FallbackMatchesExactly ==
    (FallbackRan /\ max_hits = NoLimit /\ NoIOError) =>
        /\ pc # "crashed"
        /\ scan.matches = ExpectedMatches
        /\ matches = ExpectedMatches

\* C19 as stated: every run evaluates the probe exactly once, runs the
\* engine iff the probe found it and the fallback iff it did not and the
\* mode is literal, and never runs two backends.
C19_SelectionOncePerRun ==
    Ended =>
        /\ calls.which = 1
        /\ (calls.rg = 1) <=> rg_installed
        /\ (calls.fallback = 1) <=> (~rg_installed /\ ~args.regex)
        /\ calls.rg + calls.fallback <= 1

\* C19 amended: the probe is evaluated at most once and before any backend
\* runs, and exactly once in every run that passes path validation; such a
\* run runs the engine iff the probe found it and the fallback iff it did
\* not and the mode is literal; a run that fails path validation evaluates
\* no probe and runs no backend.  No run runs two backends or one twice.
C19_SelectionOnceAfterValidation ==
    /\ calls.which <= 1
    /\ calls.rg + calls.fallback <= 1
    /\ (calls.which = 0 => calls.rg = 0 /\ calls.fallback = 0)
    /\ (Ended /\ ~(args.paths.given /\ NoneSurvives)) =>
          /\ calls.which = 1
          /\ (calls.rg = 1) <=> rg_installed
          /\ (calls.fallback = 1) <=> (~rg_installed /\ ~args.regex)
    /\ (Ended /\ args.paths.given /\ NoneSurvives) => calls = NoCalls

C19_Witness ==
    /\ pc = "rendered"
    /\ calls = [which |-> 1, rg |-> 1, fallback |-> 0]
    /\ matches # <<>>

\* C20: _repo_root returns a directory: the override when it is set and not
\* empty, else the nearest ancestor of the tool with a marker, else the
\* parent given by the placement of the tool, else two levels above it.
MarkedAncestors == {i \in 1..(Len(ToolFile) + 1) : HasMarker(fs, Ancestors(ToolFile)[i])}

RootByPriority ==
    IF environ.set /\ environ.value # <<>> THEN Resolve(fs, PathOf(environ.value))
    ELSE IF MarkedAncestors # {}
         THEN Ancestors(ToolFile)[CHOOSE i \in MarkedAncestors :
                                     \A j \in MarkedAncestors : i <= j]
    ELSE IF ToolFile[Len(ToolFile) - 1] = "identity"
         THEN SubSeq(ToolFile, 1, Len(ToolFile) - 2)
    ELSE IF ToolFile[Len(ToolFile) - 1] = "master"
            /\ ToolFile[Len(ToolFile) - 2] \in {"scripts", "vvault_scripts"}
         THEN SubSeq(ToolFile, 1, Len(ToolFile) - 3)
    ELSE SubSeq(ToolFile, 1, Len(ToolFile) - 2)

C20_RootIsDirectoryByPriority ==
    pc # "received" =>
        /\ root = RootByPriority
        /\ root \in DOMAIN fs /\ fs[root].kind = "dir"

\* C15: a line with two or more colons whose field between the first two
\* is a decimal integer n parses to Match(p, n, rest), p the part before the
\* first colon and rest everything after the second, further colons
\* included; every other line parses to no match, and without a cap _run_rg
\* returns the matches of the lines that parse, in order.
Colons(l) == {i \in 1..Len(l) : l[i] = ":"}

WellFormed(l) ==
    \E i \in Colons(l), j \in Colons(l) :
        /\ i < j
        /\ \A c \in Colons(l) : c = i \/ c >= j
        /\ j > i + 1
        /\ \A d \in (i + 1)..(j - 1) : l[d] \in {Digits[n] : n \in 1..Len(Digits)}

ParsedAs(l, r) ==
    IF WellFormed(l)
    THEN /\ r.ok
         /\ Colons(r.path) = {}
         /\ \E field \in {SubSeq(l, Len(r.path) + 2, j - 1) : j \in Colons(l)} :
               /\ Colons(field) = {}
               /\ StrToInt(field) = r.line
               /\ l = r.path \o <<":">> \o field \o <<":">> \o r.text
    ELSE r = NoMatch

C15_ParseSplitsOnFirstTwoColons ==
    prs.done =>
        /\ \A k \in 1..Len(prs.raws) : ParsedAs(prs.raws[k], prs.parsed[k])
        /\ prs.max_hits = NoLimit =>
              prs.result = SelectSeq(prs.parsed, LAMBDA r : r.ok)

\* a line that is no record is skipped and the record after it, whose text
\* has a colon of its own, is returned
C15_Witness ==
    /\ prs.done
    /\ Len(prs.raws) = 2
    /\ Cardinality(Colons(prs.raws[1])) = 2
    /\ ~prs.parsed[1].ok
    /\ prs.result = <<Match(<<"a">>, 11, <<":", "a">>)>>

\* C21: the fallback returns every matching line of a file once for each
\* way the file is reached (as a target that is a file, or under a target
\* by one of the globs), and with a cap the duplicates count: the list has
\* as many matches as the cap allows of the total with duplicates.
Reaches ==
    {x \in (1..Len(paths)) \X (0..Len(globs)) \X DOMAIN fs :
        IF IsFile(fs, paths[x[1]])
        THEN x[2] = 0 /\ x[3] = paths[x[1]]
        ELSE /\ x[2] > 0
             /\ \E n \in DOMAIN RGlob(fs, paths[x[1]], globs[x[2]]) :
                   RGlob(fs, paths[x[1]], globs[x[2]])[n] = x[3]}

HitLines(p) ==
    IF ~CanOpen(fs, p) THEN {}
    ELSE {i \in 1..Len(LinesOf(fs, p)) :
            IF args.case_sensitive
            THEN Contains(LinesOf(fs, p)[i], args.needle)
            ELSE Contains(LowerStr(LinesOf(fs, p)[i]), LowerStr(args.needle))}

Copies(rel, i) ==
    Cardinality({k \in 1..Len(matches) : matches[k].path = rel /\ matches[k].line = i})

HitsWithDuplicates == UNION {{<<x, i>> : i \in HitLines(x[3])} : x \in Reaches}

C21_DuplicatesKept ==
    FallbackRan =>
        /\ max_hits = NoLimit =>
              \A x \in Reaches : \A i \in HitLines(x[3]) :
                  Copies(RelStr(Resolve(fs, x[3]), Resolve(fs, root)), i)
                     = Cardinality({y \in Reaches : Resolve(fs, y[3]) = Resolve(fs, x[3])})
        /\ Len(matches) = IF max_hits = NoLimit \/ Cardinality(HitsWithDuplicates) < max_hits
                          THEN Cardinality(HitsWithDuplicates)
                          ELSE max_hits

\* C22: with a cap c the parse loop returns the first c well-formed lines
\* of the output, parsed, in output order, or all of them when they are
\* fewer than c; lines that are not well-formed do not count.
WellFormedLines == SelectSeq(prs.raws, WellFormed)

C22_FirstWellFormedRecords ==
    (prs.done /\ prs.max_hits # NoLimit) =>
        /\ Len(prs.result) = IF Len(WellFormedLines) < prs.max_hits
                             THEN Len(WellFormedLines) ELSE prs.max_hits
        /\ \A k \in 1..Len(prs.result) :
              prs.result[k].ok /\ ParsedAs(WellFormedLines[k], prs.result[k])

\* a malformed line before the record that fills the cap, and a record
\* after it that is left out
C22_Witness ==
    /\ prs.done
    /\ prs.max_hits = 1
    /\ Len(prs.raws) = 3
    /\ ~WellFormed(prs.raws[1]) /\ prs.raws[1] # <<>>
    /\ WellFormed(prs.raws[2]) /\ WellFormed(prs.raws[3])
    /\ prs.raws[2] # prs.raws[3]
    /\ prs.result = <<_parse_rg_line(prs.raws[2])>>

====
